---- MODULE Spec2Model ----
(***************************************************************************)
(* statology.outliers: the two outlier detectors (quartile, zscore) and    *)
(* the decorator that resolves their bounds, runs them and applies the     *)
(* requested treatment.                                                    *)
(*                                                                         *)
(* Numbers.  Sample values and capping values are integers.  The elements  *)
(* of `bounds` (quantile fractions, score thresholds) are counted in       *)
(* quarters: 1 is 0.25, 3 is 0.75, 10 is 2.5, -10 is -2.5.  Every quantity *)
(* the code derives from them is kept exactly, as an integer numerator     *)
(* over a fixed denominator, so that every comparison the code makes is    *)
(* decided exactly.  Samples are non-empty.                                *)
(***************************************************************************)
EXTENDS Integers, Sequences, FiniteSets, TLC

\* Longest sample enumerated.
MaxLen == 3
\* Largest sample value enumerated for the detectors.
MaxVal == 5
\* Largest sample value enumerated for the treatment calls.
MaxTreatVal == 2

VARIABLES
    func,       \* name of the decorated function being called
    xs,         \* the sample
    bounds,     \* the bounds argument as the caller gave it
    kwargs,     \* the keyword arguments as the caller gave them
    pc,         \* "call" before the call, "done" after it
    called,     \* the bounds the detector was called with (<<>>: not called)
    mask,       \* what the detector returned (<<>>: nothing)
    retvalue,   \* what the call returned (<<>>: nothing, or an empty array)
    raised      \* the exception the call ended with (cls = "none": returned)

vars == <<func, xs, bounds, kwargs, pc, called, mask, retvalue, raised>>

---------------------------------------------------------------------------
(* Python values *)

None == [type |-> "NoneType", v |-> <<>>]
Float(x) == [type |-> "float", v |-> <<x>>]
NaN == [type |-> "nan", v |-> <<>>]
Tuple(s) == [type |-> "tuple", v |-> s]

\* hasattr(b, "__iter__")
HasIter(b) == b.type = "tuple"

\* bool(b): None, 0 and the empty sequence are false
Truthy(b) ==
    CASE b.type = "NoneType" -> FALSE
      [] b.type = "float" -> b.v[1] # 0
      [] b.type = "nan" -> TRUE
      [] b.type = "tuple" -> Len(b.v) > 0

\* kwargs.get(key, default)
Get(kw, key, default) == IF key \in DOMAIN kw THEN kw[key] ELSE default

NoError == [cls |-> "none", msg |-> ""]
Error(cls, msg) == [cls |-> cls, msg |-> msg]

---------------------------------------------------------------------------
(* Bound resolution *)

default_bounds(name) ==
    IF name = "quartile" THEN Tuple(<<1, 3>>) ELSE Tuple(<<-10, 10>>)

\* bounds = default if not bounds else (float(-bounds), float(bounds))
\*          if not hasattr(bounds, "__iter__") else bounds
resolve(name, b) ==
    IF ~Truthy(b) THEN default_bounds(name)
    ELSE IF ~HasIter(b) THEN Tuple(<<0 - b.v[1], b.v[1]>>)
    ELSE b

---------------------------------------------------------------------------
(* quartile *)

RECURSIVE insert(_, _)
insert(s, x) ==
    IF s = <<>> THEN <<x>>
    ELSE IF x <= Head(s) THEN <<x>> \o s
    ELSE <<Head(s)>> \o insert(Tail(s), x)

RECURSIVE sort(_)
sort(s) == IF s = <<>> THEN <<>> ELSE insert(sort(Tail(s)), Head(s))

\* np.quantile(a, q), method "linear", q in quarters; the result times 4.
\* virtual index q * (n - 1), its floor and its fraction gamma, then
\* s[lo] + gamma * (s[lo + 1] - s[lo]).
quantile(a, q) ==
    LET s == sort(a)
        n == Len(a)
        h == q * (n - 1)
        lo == h \div 4
        gamma == h % 4
        hi == IF lo + 1 > n - 1 THEN n - 1 ELSE lo + 1
    IN  4 * s[lo + 1] + gamma * (s[hi + 1] - s[lo + 1])

\* np.quantile rejects a fraction outside [0, 1]
quantile_ok(q) == 0 <= q /\ q <= 4

\* quartile with the edges of the range counted as outside it
quartile_inclusive(a, b) ==
    IF ~(quantile_ok(b[1]) /\ quantile_ok(b[2]))
    THEN [raised |-> Error("ValueError", "Quantiles must be in the range [0, 1]"),
          mask |-> <<>>]
    ELSE
    LET lbound == quantile(a, b[1])
        rbound == quantile(a, b[2])
        boundary_range == rbound - lbound
        lrange == 2 * lbound - 3 * boundary_range
        rrange == 2 * rbound + 3 * boundary_range
    IN  [raised |-> NoError,
         mask |-> [i \in 1..Len(a) |-> (8 * a[i] <= lrange) \/ (8 * a[i] >= rrange)]]

\* lrange and rrange are kept times 8
quartile(a, b) ==
    IF ~(quantile_ok(b[1]) /\ quantile_ok(b[2]))
    THEN [raised |-> Error("ValueError", "Quantiles must be in the range [0, 1]"),
          mask |-> <<>>]
    ELSE
    LET lbound == quantile(a, b[1])
        rbound == quantile(a, b[2])
        boundary_range == rbound - lbound
        lrange == 2 * lbound - 3 * boundary_range
        rrange == 2 * rbound + 3 * boundary_range
    IN  [raised |-> NoError,
         mask |-> [i \in 1..Len(a) |-> (8 * a[i] < lrange) \/ (8 * a[i] > rrange)]]

---------------------------------------------------------------------------
(* zscore *)

RECURSIVE sum(_)
sum(s) == IF s = <<>> THEN 0 ELSE Head(s) + sum(Tail(s))

sgn(a) == IF a < 0 THEN 0 - 1 ELSE IF a > 0 THEN 1 ELSE 0

\* a * sqrt(m) < b * sqrt(k), for m, k >= 0, decided on signs and squares
SurdLess(a, m, b, k) ==
    LET sl == IF m = 0 THEN 0 ELSE sgn(a)
        sr == IF k = 0 THEN 0 ELSE sgn(b)
    IN  IF sl # sr THEN sl < sr
        ELSE IF sl = 0 THEN FALSE
        ELSE IF sl = 1 THEN a * a * m < b * b * k
        ELSE a * a * m > b * b * k

\* scores_of with the sample standard deviation (ddof = 1): std is
\* sqrt(ss / (n^2 * (n - 1)))
scores_of_ddof1(a) ==
    LET n == Len(a)
        S == sum(a)
        d == [i \in 1..n |-> n * a[i] - S]
        ss == sum([i \in 1..n |-> d[i] * d[i]])
    IN  [i \in 1..n |-> [nan |-> ss = 0, d |-> d[i], ss |-> ss, n |-> n - 1]]

\* stats.zscore(a): (a - a.mean()) / a.std(), ddof = 0.  With n = len(a) and
\* S = sum(a), a[i] - mean is d / n for d = n * a[i] - S, and std is
\* sqrt(ss / n^3) for ss the sum of the d squared.  A score is kept as the
\* pair (d, ss); std = 0 makes every score 0 / 0 = nan.
scores_of(a) ==
    LET n == Len(a)
        S == sum(a)
        d == [i \in 1..n |-> n * a[i] - S]
        ss == sum([i \in 1..n |-> d[i] * d[i]])
    IN  [i \in 1..n |-> [nan |-> ss = 0, d |-> d[i], ss |-> ss, n |-> n]]

\* score < t and score > t, t in quarters: (d / n) / sqrt(ss / n^3) against
\* t / 4, that is 4 * d * sqrt(n) against t * sqrt(ss).  A comparison with
\* nan is false.
ScoreLess(z, t) == ~z.nan /\ SurdLess(4 * z.d, z.n, t, z.ss)
ScoreGreater(z, t) == ~z.nan /\ SurdLess(t, z.ss, 4 * z.d, z.n)

\* zscore failing fast on a standard deviation of 0
zscore_failfast(a, b) ==
    LET scores == scores_of(a)
    IN  IF \E i \in 1..Len(a) : scores[i].nan
        THEN [raised |-> Error("ZeroDivisionError", "division by zero"),
              mask |-> <<>>]
        ELSE [raised |-> NoError,
              mask |-> [i \in 1..Len(a) |->
                     ScoreLess(scores[i], b[1]) \/ ScoreGreater(scores[i], b[2])]]

zscore(a, b) ==
    LET scores == scores_of(a)
    IN  [raised |-> NoError,
         mask |-> [i \in 1..Len(a) |->
                     ScoreLess(scores[i], b[1]) \/ ScoreGreater(scores[i], b[2])]]

---------------------------------------------------------------------------
(* Treatments *)

\* trimming with the test inverted: keeps the flagged elements
RECURSIVE trimming_inverted(_, _)
trimming_inverted(a, m) ==
    IF a = <<>> THEN <<>>
    ELSE IF Head(m) THEN <<Float(Head(a))>> \o trimming_inverted(Tail(a), Tail(m))
    ELSE trimming_inverted(Tail(a), Tail(m))

\* np.array([x for x, c in zip(xs, retvalue) if not c])
RECURSIVE trimming(_, _)
trimming(a, m) ==
    IF a = <<>> THEN <<>>
    ELSE IF ~Head(m) THEN <<Float(Head(a))>> \o trimming(Tail(a), Tail(m))
    ELSE trimming(Tail(a), Tail(m))

\* np.array([x if not c else capping for x, c in zip(xs, retvalue)])
capping_scalar(a, m, c) ==
    [i \in 1..Len(a) |-> IF ~m[i] THEN Float(a[i]) ELSE c]

minimum(x, y) == IF x < y THEN x ELSE y
maximum(x, y) == IF x > y THEN x ELSE y

\* np.clip(xs, lo, hi): minimum(maximum(xs, lo), hi)
clip(a, lo, hi) ==
    [i \in 1..Len(a) |-> Float(minimum(maximum(a[i], lo), hi))]

\* capping branch that clips the flagged elements only
capping_masked(a, m, kw) ==
    LET capping == Get(kw, "capping", NaN)
    IN  IF ~HasIter(capping)
        THEN [raised |-> NoError, retvalue |-> capping_scalar(a, m, capping)]
        ELSE [raised |-> NoError,
              retvalue |-> [i \in 1..Len(a) |->
                  IF m[i] THEN clip(a, capping.v[1], capping.v[2])[i]
                  ELSE Float(a[i])]]

\* The capping branch: a static value for the outliers, or a clip of the
\* whole sample.
capping_branch(a, m, kw) ==
    LET capping == Get(kw, "capping", NaN)
    IN  IF ~HasIter(capping)
        THEN [raised |-> NoError, retvalue |-> capping_scalar(a, m, capping)]
        ELSE [raised |-> NoError,
              retvalue |-> clip(a, capping.v[1], capping.v[2])]

\* the last two branches with discretization not told apart from an unknown
\* treatment
reject_as_unknown(treat) ==
    [raised |-> Error("ValueError", "Unknown Treatment Method: " \o treat),
     retvalue |-> <<>>]

\* the last two branches with an unknown treatment passed over
reject_known_only(treat) ==
    IF treat = "discretization"
    THEN [raised |-> Error("NotImplementedError", "Apply Externally."),
          retvalue |-> <<>>]
    ELSE [raised |-> NoError, retvalue |-> <<>>]

\* The last two branches of the chain: discretization and anything else.
reject(treat) ==
    IF treat = "discretization"
    THEN [raised |-> Error("NotImplementedError", "Apply Externally."),
          retvalue |-> <<>>]
    ELSE [raised |-> Error("ValueError", "Unknown Treatment Method: " \o treat),
          retvalue |-> <<>>]

\* The treatment chain of the wrapper, entered when rtype != bool.
treat_outliers(a, m, treat, kw) ==
    IF treat = "trimming"
    THEN [raised |-> NoError, retvalue |-> trimming(a, m)]
    ELSE IF treat = "capping"
    THEN capping_branch(a, m, kw)
    ELSE reject(treat)

\* What a nan becomes when a float array is converted to an integer type.
\* The conversion is undefined in C: the most negative integer on x86
\* (written here at 32-bit width), 0 on ARM.
NaNAsInt == {0 - 2147483647 - 1, 0}

\* np.array(retvalue, dtype = rtype) for rtype int or float.  The elements
\* are integers or nan: float keeps each, int keeps the integers and turns
\* nan into g.
cast(arr, rtype, g) ==
    [i \in 1..Len(arr) |->
        IF rtype = "int" /\ arr[i].type = "nan" THEN Float(g) ELSE arr[i]]

\* The decorator's wrapper around the detector `name`.
wrapper(name, a, b, kw, g) ==
    LET bnd == resolve(name, b)
    IN  IF Len(bnd.v) # 2
        THEN [called |-> <<>>, mask |-> <<>>, retvalue |-> <<>>,
              raised |-> Error("AssertionError",
                  "Boundary should be 2D, got " \o ToString(Len(bnd.v)))]
        ELSE
        LET det == IF name = "quartile" THEN quartile(a, bnd.v)
                   ELSE zscore(a, bnd.v)
            rtype == Get(kw, "rtype", "bool")
            treat == Get(kw, "treatment", "capping")
        IN  IF det.raised.cls # "none"
            THEN [called |-> bnd.v, mask |-> <<>>, retvalue |-> <<>>,
                  raised |-> det.raised]
            ELSE IF rtype # "bool"
            THEN LET t == treat_outliers(a, det.mask, treat, kw)
                 IN  [called |-> bnd.v, mask |-> det.mask,
                      retvalue |-> IF t.raised.cls = "none"
                                   THEN cast(t.retvalue, rtype, g) ELSE <<>>,
                      raised |-> t.raised]
            ELSE [called |-> bnd.v, mask |-> det.mask, retvalue |-> det.mask,
                  raised |-> NoError]

---------------------------------------------------------------------------
(* The calls enumerated *)

Samples(top) == UNION {[1..n -> 0..top] : n \in 1..MaxLen}

\* The sample of the quantile detector's documented example.
Example == <<1, 2, 3, 4, 5, 6, 7, 8, 9, 100>>

MalformedBounds == {Tuple(<<>>), Tuple(<<4>>), Tuple(<<1, 2, 3>>)}
ScalarBounds == {Float(0), Float(4), Float(10), Float(0 - 4)}
Fractions == 0..4
FractionPairs ==
    {Tuple(<<lf, hf>>) : lf \in Fractions, hf \in Fractions}
        \cup {Tuple(<<0 - 1, 5>>)}
Thresholds == {0 - 10, 0 - 4, 0, 4, 10}
ThresholdPairs == {Tuple(<<lo, hi>>) : lo \in Thresholds, hi \in Thresholds}

DetectBounds(name) ==
    {None} \cup ScalarBounds \cup MalformedBounds
        \cup (IF name = "quartile" THEN FractionPairs ELSE ThresholdPairs)

DetectSamples(name) ==
    Samples(MaxVal) \cup (IF name = "quartile" THEN {Example} ELSE {})

TreatBounds == {None, Float(4), Tuple(<<1, 2>>), Tuple(<<1, 2, 3>>)}

Treatments == {"trimming", "capping", "discretization", "winsorize", ""}
Cappings == {NaN, Float(9), Tuple(<<1, 1>>), Tuple(<<1, 2>>)}

TreatKwargs ==
    {"treatment" :> t : t \in Treatments}
    \cup {("rtype" :> "bool") @@ ("treatment" :> t) : t \in Treatments}
    \cup {"rtype" :> r : r \in {"int", "float"}}
    \cup {("rtype" :> r) @@ ("treatment" :> t) :
            r \in {"int", "float"}, t \in Treatments}
    \cup {("rtype" :> r) @@ ("capping" :> c) :
            r \in {"int", "float"}, c \in Cappings}
    \cup {("rtype" :> r) @@ ("treatment" :> "capping") @@ ("capping" :> c) :
            r \in {"int", "float"}, c \in Cappings}

Init ==
    /\ func \in {"quartile", "zscore"}
    /\ \/ /\ xs \in DetectSamples(func)
          /\ bounds \in DetectBounds(func)
          /\ kwargs = <<>>
       \/ /\ xs \in Samples(MaxTreatVal)
          /\ bounds \in TreatBounds
          /\ kwargs \in TreatKwargs
    /\ pc = "call"
    /\ called = <<>>
    /\ mask = <<>>
    /\ retvalue = <<>>
    /\ raised = NoError

Call(name) ==
    /\ pc = "call"
    /\ func = name
    /\ \E g \in NaNAsInt :
        LET r == wrapper(name, xs, bounds, kwargs, g)
        IN  /\ called' = r.called
            /\ mask' = r.mask
            /\ retvalue' = r.retvalue
            /\ raised' = r.raised
    /\ pc' = "done"
    /\ UNCHANGED <<func, xs, bounds, kwargs>>

Quartile == Call("quartile")
Zscore == Call("zscore")

Next == Quartile \/ Zscore

Spec == Init /\ [][Next]_vars

---------------------------------------------------------------------------
(* What a finished call is compared against *)

Rtype == Get(kwargs, "rtype", "bool")
Treat == Get(kwargs, "treatment", "capping")
Capping == Get(kwargs, "capping", NaN)

\* The bounds passed the arity check and the detector returned a mask.
DetectorReturned == Len(called) = 2 /\ Len(mask) = Len(xs)

Flagged == {i \in 1..Len(xs) : mask[i]}
Kept == {i \in 1..Len(xs) : ~mask[i]}

\* The k-th smallest value of a (k from 0), by counting.
OrderStatistic(a, k) ==
    CHOOSE v \in {a[i] : i \in 1..Len(a)} :
        /\ Cardinality({i \in 1..Len(a) : a[i] < v}) <= k
        /\ k < Cardinality({i \in 1..Len(a) : a[i] <= v})

\* Four times the linear-interpolation quantile of a at q quarters: the point
\* at position q * (n - 1) / 4 on the polyline through the order statistics.
LinearQuantile(a, q) ==
    LET n == Len(a)
        k == CHOOSE j \in 0..(n - 1) : 4 * j <= q * (n - 1) /\ q * (n - 1) < 4 * (j + 1)
        k1 == IF k = n - 1 THEN k ELSE k + 1
    IN  4 * OrderStatistic(a, k)
          + (q * (n - 1) - 4 * k) * (OrderStatistic(a, k1) - OrderStatistic(a, k))

Q1 == LinearQuantile(xs, called[1])
Q3 == LinearQuantile(xs, called[2])
IQR == Q3 - Q1

\* xs[i] < Q1 - 1.5 * IQR or xs[i] > Q3 + 1.5 * IQR, all times 8
OutsideRange(i) ==
    \/ 8 * xs[i] < 2 * Q1 - 3 * IQR
    \/ 8 * xs[i] > 2 * Q3 + 3 * IQR

\* C1: for a non-empty sample and fractions 0 <= lf <= hf <= 1, quartile
\* returns a mask of the sample's length in which element i is true iff
\* xs[i] is strictly below Q1 - 1.5 IQR or strictly above Q3 + 1.5 IQR, for
\* Q1, Q3 the linear-interpolation quantiles at lf, hf; a value on an edge is
\* not flagged; with IQR = 0 exactly the values other than Q1 are flagged;
\* in the documented example only 100 is flagged.
Thm_C1 ==
    (/\ pc = "done"
     /\ func = "quartile"
     /\ Len(called) = 2
     /\ 0 <= called[1] /\ called[1] <= called[2] /\ called[2] <= 4)
    => /\ DetectorReturned
       /\ \A i \in 1..Len(xs) : mask[i] <=> OutsideRange(i)
       /\ \A i \in 1..Len(xs) :
            (8 * xs[i] = 2 * Q1 - 3 * IQR \/ 8 * xs[i] = 2 * Q3 + 3 * IQR) => ~mask[i]
       /\ IQR = 0 => \A i \in 1..Len(xs) : mask[i] <=> 4 * xs[i] # Q1
       /\ Rtype = "bool" => raised = NoError /\ retvalue = mask
       /\ (xs = Example /\ called = <<1, 3>>) => Flagged = {10}

\* The documented example was run with the default fractions, and a call on
\* another sample left a value exactly on an edge of a range of non-zero width.
Wit_C1 ==
    /\ pc = "done"
    /\ func = "quartile"
    /\ DetectorReturned
    /\ called[1] <= called[2]
    /\ \/ xs = Example /\ bounds = None /\ mask[10] /\ ~mask[9]
       \/ /\ IQR # 0
          /\ \E i \in Kept : 8 * xs[i] = 2 * Q1 - 3 * IQR \/ 8 * xs[i] = 2 * Q3 + 3 * IQR

\* n^2 times the population variance: n * sum(x^2) - sum(x)^2
SpreadSq(a) == Len(a) * sum([i \in 1..Len(a) |-> a[i] * a[i]]) - sum(a) * sum(a)

\* n times (a[i] - mean)
Deviation(a, i) == Len(a) * a[i] - sum(a)

\* (a[i] - mean) / population_std < t / 4, that is 4 * Deviation < t * sqrt(SpreadSq)
StdScoreBelow(a, i, t) ==
    LET p == 4 * Deviation(a, i)
    IN  IF t <= 0 THEN p < 0 /\ p * p > t * t * SpreadSq(a)
        ELSE p < 0 \/ p * p < t * t * SpreadSq(a)

\* (a[i] - mean) / population_std > t / 4
StdScoreAbove(a, i, t) ==
    LET p == 4 * Deviation(a, i)
    IN  IF t >= 0 THEN p > 0 /\ p * p > t * t * SpreadSq(a)
        ELSE p > 0 \/ p * p < t * t * SpreadSq(a)

\* (a[i] - mean) / population_std = t / 4
StdScoreEquals(a, i, t) ==
    LET p == 4 * Deviation(a, i)
    IN  sgn(p) = sgn(t) /\ p * p = t * t * SpreadSq(a)

\* C2: for a sample of non-zero spread and thresholds (lo, hi), zscore
\* returns a mask of the sample's length in which element i is true iff
\* (xs[i] - mean) / population_std is strictly below lo or strictly above hi;
\* a score equal to lo or hi is not flagged.
Thm_C2 ==
    (/\ pc = "done"
     /\ func = "zscore"
     /\ Len(called) = 2
     /\ SpreadSq(xs) # 0)
    => /\ DetectorReturned
       /\ \A i \in 1..Len(xs) :
            mask[i] <=> \/ StdScoreBelow(xs, i, called[1])
                        \/ StdScoreAbove(xs, i, called[2])
       /\ called[1] <= called[2] =>
            \A i \in 1..Len(xs) :
                (StdScoreEquals(xs, i, called[1]) \/ StdScoreEquals(xs, i, called[2]))
                    => ~mask[i]
       /\ Rtype = "bool" => raised = NoError /\ retvalue = mask

\* A call flagged one element and kept another whose score equals a threshold.
Wit_C2 ==
    /\ pc = "done"
    /\ func = "zscore"
    /\ DetectorReturned
    /\ SpreadSq(xs) # 0
    /\ called[1] <= called[2]
    /\ Flagged # {}
    /\ \E i \in Kept : StdScoreEquals(xs, i, called[1]) \/ StdScoreEquals(xs, i, called[2])

\* C10: for a sample whose elements are all equal (a one-element sample
\* included) and any threshold pair, zscore does not raise, every score is
\* nan, and the mask has the sample's length with every entry false.
Thm_C10 ==
    (/\ pc = "done"
     /\ func = "zscore"
     /\ Len(called) = 2
     /\ \A i \in 1..Len(xs) : xs[i] = xs[1])
    => /\ raised.cls \notin {"ZeroDivisionError", "FloatingPointError"}
       /\ DetectorReturned
       /\ \A i \in 1..Len(xs) : scores_of(xs)[i].nan /\ ~mask[i]
       /\ Rtype = "bool" => raised = NoError /\ retvalue = mask

\* A constant sample of two or more elements went through zscore with
\* thresholds that a score of 0 would violate.
Wit_C10 ==
    /\ pc = "done"
    /\ func = "zscore"
    /\ Len(xs) >= 2
    /\ \A i \in 1..Len(xs) : xs[i] = xs[1]
    /\ DetectorReturned
    /\ called[1] > 0
    /\ retvalue = mask

---------------------------------------------------------------------------
(* Bound resolution and validation *)

\* The pair the resolution is described to yield for the bounds supplied.
ResolvedBounds ==
    CASE bounds.type = "NoneType" -> default_bounds(func).v
      [] bounds.type = "float" -> <<0 - bounds.v[1], bounds.v[1]>>
      [] OTHER -> bounds.v

\* C3: the resolution yields the method default when no bounds are supplied,
\* (-t, t) for every single scalar t (zero and negative included, for both
\* detectors) and a supplied pair unchanged, and the detector is called with
\* exactly that pair.
CE_C3 ==
    (/\ pc = "done"
     /\ bounds.type = "tuple" => Len(bounds.v) = 2)
    => called = ResolvedBounds

\* C9: supplied bounds that are a sequence of other than two elements (zero,
\* one, three or more) make the call fail with the boundary error before the
\* detector runs and before any treatment; defaults are never substituted.
CE_C9 ==
    (/\ pc = "done"
     /\ bounds.type = "tuple"
     /\ Len(bounds.v) # 2)
    => /\ raised.cls = "AssertionError"
       /\ called = <<>>
       /\ mask = <<>>
       /\ retvalue = <<>>

---------------------------------------------------------------------------
(* Treatments *)

\* The number of kept positions up to i: where xs[i] lands after trimming.
KeptRank(i) == Cardinality({k \in Kept : k <= i})

\* C4: with treatment = "trimming" and a non-boolean output type the call
\* returns exactly the elements of xs whose mask entry is false, in their
\* original order, len(xs) - count(mask) of them.
Thm_C4 ==
    (/\ pc = "done"
     /\ DetectorReturned
     /\ Rtype # "bool"
     /\ Treat = "trimming")
    => /\ raised = NoError
       /\ Len(retvalue) = Len(xs) - Cardinality(Flagged)
       /\ \A i \in Kept : retvalue[KeptRank(i)] = Float(xs[i])

\* A trimming call dropped a flagged element that stood between or before
\* two kept ones.
Wit_C4 ==
    /\ pc = "done"
    /\ DetectorReturned
    /\ Rtype # "bool"
    /\ Treat = "trimming"
    /\ Cardinality(Kept) >= 2
    /\ \E i \in Flagged : \E j \in Kept : i < j

\* A cap given as one scalar (the nan default included).
ScalarCap == ~HasIter(Capping)

\* C5: capping with a single scalar cap c (the default nan included) and a
\* non-boolean output type returns a sequence of the sample's length holding
\* c where the mask is true and xs[i] where it is false.
CE_C5 ==
    (/\ pc = "done"
     /\ DetectorReturned
     /\ Rtype # "bool"
     /\ Treat = "capping"
     /\ ScalarCap)
    => /\ raised = NoError
       /\ Len(retvalue) = Len(xs)
       /\ \A i \in 1..Len(xs) :
            retvalue[i] = IF mask[i] THEN Capping ELSE Float(xs[i])

ClipValue(x, lo, hi) == IF x < lo THEN lo ELSE IF x > hi THEN hi ELSE x

\* A cap given as a pair (lo, hi) with lo <= hi.
PairCap ==
    /\ HasIter(Capping)
    /\ Len(Capping.v) = 2
    /\ Capping.v[1] <= Capping.v[2]

\* C6: capping with a pair (lo, hi), lo <= hi, and a non-boolean output type
\* returns the element-wise clip of the whole sample into [lo, hi], the same
\* whichever detector and detection bounds produced the mask.
Thm_C6 ==
    (/\ pc = "done"
     /\ DetectorReturned
     /\ Rtype # "bool"
     /\ Treat = "capping"
     /\ PairCap)
    => /\ raised = NoError
       /\ Len(retvalue) = Len(xs)
       /\ \A i \in 1..Len(xs) :
            retvalue[i] = Float(ClipValue(xs[i], Capping.v[1], Capping.v[2]))
       /\ \A name \in {"quartile", "zscore"} : \A b \in TreatBounds :
            \A g \in NaNAsInt :
                LET other == wrapper(name, xs, b, kwargs, g)
                IN  other.raised = NoError => other.retvalue = retvalue

\* A clip changed an element the detector had not flagged, below lo or above hi.
Wit_C6 ==
    /\ pc = "done"
    /\ DetectorReturned
    /\ Rtype # "bool"
    /\ Treat = "capping"
    /\ PairCap
    /\ Flagged # {}
    /\ \E i \in Kept : retvalue[i] # Float(xs[i])

UnknownTreatment == Treat \notin {"trimming", "capping", "discretization"}

====
